---- MODULE Spec2Model ----
(******************************************************************************)
(* DevFlow: the task board of one browser tab.  The App component owns the    *)
(* project list, the active project, the task list and the task modal; the    *)
(* TaskBoard / StatusColumn / TaskModal / TeamBoard components decide,        *)
(* from the role of the logged-in user, which handlers a user can reach.      *)
(*                                                                            *)
(* Spec and SpecCtl are the board: Spec is the application as a user drives   *)
(* it through the rendered controls.  SpecCtl invokes the handlers of App     *)
(* directly with arbitrary arguments (the surface the components are          *)
(* handed as props), which is where the contract of a handler on an           *)
(* unknown id or on a caller the components never let through is visible.     *)
(* SpecMeet, SpecJoin and SpecRoom follow the live meeting in two tabs,       *)
(* SpecChat the AI chat, SpecAuth the sessions of AuthProvider and            *)
(* SpecViews the derived views of the task list.                              *)
(******************************************************************************)
EXTENDS Integers, Sequences, FiniteSets, TLC

VARIABLES
    user,               \* AuthContext: the logged-in user, NoUser when null
    activeTab,          \* App: activeTab
    projects,           \* App: projects (array)
    activeProjectId,    \* App: activeProjectId
    tasks,              \* App: tasks (array)
    isModalOpen,        \* App: isModalOpen
    taskToEdit,         \* App: taskToEdit, NoTask when undefined
    isProjectModalOpen, \* TaskBoard: isProjectModalOpen
    dataTransfer,       \* the drag session's 'taskId' datum, NoDrag outside a drag
    dialog,             \* outcome of the last alert()/confirm() of handleDeleteTask
    now,                \* the last value Date.now() returned
    writes,             \* number of handler calls that wrote a collection so far
    ctx,                \* per browser tab: the App and MeetingRoom state of the meeting
    localStorage        \* the item under 'devflow_live_meeting', shared by the tabs

vars == <<user, activeTab, projects, activeProjectId, tasks, isModalOpen,
          taskToEdit, isProjectModalOpen, dataTransfer, dialog, now, writes,
          ctx, localStorage>>

\* The state of the live meeting
meetVars == <<ctx, localStorage>>

\* The state of the board
boardVars == <<user, activeTab, projects, activeProjectId, tasks, isModalOpen,
               taskToEdit, isProjectModalOpen, dataTransfer, dialog, writes>>

-----------------------------------------------------------------------------
(* Bounds of the model *)

\* Handler calls that write the projects or the tasks, per behaviour
MaxWrites == 2

-----------------------------------------------------------------------------
(* Strings that the code searches are sequences of characters *)

Str_Mike == <<"M", "i", "k", "e">>
Str_Sarah == <<"S", "a", "r", "a", "h">>
Str_Yassine == <<"Y", "a", "s", "s", "i", "n", "e">>
Str_Mi == <<"M", "i">>
Str_Empty == << >>
Str_YassineAdmin == Str_Yassine \o <<" ", "A", "d", "m", "i", "n">>
Str_SarahManager == Str_Sarah \o <<" ", "M", "a", "n", "a", "g", "e", "r">>
Str_MikeDeveloper == Str_Mike \o <<" ", "D", "e", "v", "e", "l", "o", "p", "e", "r">>

\* String.prototype.toLowerCase on the characters in use
ToLowerChar(c) ==
    CASE c = "A" -> "a" [] c = "D" -> "d" [] c = "M" -> "m"
      [] c = "S" -> "s" [] c = "Y" -> "y" [] OTHER -> c

ToLowerCase(s) == [i \in 1..Len(s) |-> ToLowerChar(s[i])]

\* String.prototype.includes: sub occurs in s as a contiguous run
Includes(s, sub) ==
    \E k \in 0..(Len(s) - Len(sub)) : SubSeq(s, k + 1, k + Len(sub)) = sub

\* s.split(' ')[0]: the characters before the first space
FirstToken(s) ==
    LET spaces == {i \in 1..Len(s) : s[i] = " "}
    IN  IF spaces = {} THEN s
        ELSE SubSeq(s, 1, (CHOOSE i \in spaces : \A j \in spaces : i <= j) - 1)

-----------------------------------------------------------------------------
(* Types and initial data *)

TaskStatus == {"TODO", "IN_PROGRESS", "REVIEW", "DONE"}

Undefined == "<undefined>"
NoDrag == "<no drag>"
EmptyData == ""

NoUser == [id |-> "", name |-> Str_Empty, role |-> "NONE"]

MOCK_USERS ==
    { [id |-> "u1", name |-> Str_YassineAdmin, role |-> "ADMIN"],
      [id |-> "u2", name |-> Str_SarahManager, role |-> "MANAGER"],
      [id |-> "u3", name |-> Str_MikeDeveloper, role |-> "EMPLOYEE"] }

INITIAL_PROJECTS ==
    << [id |-> "p1", name |-> "E-Commerce Replatform", description |-> "Migrating"],
       [id |-> "p2", name |-> "Mobile App v2.0", description |-> "Redesign"] >>

INITIAL_TASKS ==
    << [id |-> "t1", projectId |-> "p1", title |-> "Product Listing Page (PLP)",
        description |-> "Implement grid layout", status |-> "DONE",
        category |-> "FRONTEND", assignee |-> Str_Sarah, priority |-> "HIGH",
        acceptanceCriteria |-> <<"Filters work">>, estimatedHours |-> 12,
        technicalPlan |-> Undefined, createdAt |-> 0],
       [id |-> "t4", projectId |-> "p1", title |-> "Redis Caching Layer",
        description |-> "Implement caching", status |-> "TODO",
        category |-> "API", assignee |-> Str_Mike, priority |-> "MEDIUM",
        acceptanceCriteria |-> <<"TTL configured">>, estimatedHours |-> 4,
        technicalPlan |-> Undefined, createdAt |-> 1] >>

\* Math.random().toString(36).substr(2, 9): one of the strings the generator
\* can return; no caller checks the string against the ids in use
RandomIds == {"r1", "r2"}

\* Date.now(): the last value read, or a later one
Clock == {now, now + 1}

-----------------------------------------------------------------------------
(* The task form (TaskModal) *)

\* What a user can type into the editable fields of the form
TypedFields ==
    { [title |-> "Docs", description |-> "", category |-> "GENERAL",
       priority |-> "LOW", assignee |-> Str_Mi, estimatedHours |-> 3,
       technicalPlan |-> ""] }

\* taskToEdit is a sequence: << >> when undefined, <<task>> otherwise
NoTask == << >>

\* The form as the effect on [isOpen, taskToEdit] loads it
LoadedForm ==
    IF taskToEdit # NoTask
    THEN LET t == taskToEdit[1]
         IN  [title |-> t.title, description |-> t.description,
              category |-> t.category, priority |-> t.priority,
              assignee |-> t.assignee, status |-> t.status,
              acceptanceCriteria |-> t.acceptanceCriteria,
              estimatedHours |-> IF t.estimatedHours = 0 THEN 4 ELSE t.estimatedHours,
              technicalPlan |-> IF t.technicalPlan = Undefined THEN ""
                                ELSE t.technicalPlan]
    ELSE [title |-> "", description |-> "", category |-> "FRONTEND",
          priority |-> "MEDIUM", assignee |-> Str_Empty, status |-> "TODO",
          acceptanceCriteria |-> << >>, estimatedHours |-> 4,
          technicalPlan |-> ""]

\* The form after the user typed f into the editable inputs; status and
\* acceptanceCriteria have no input
Typed(form, f) ==
    [form EXCEPT !.title = f.title, !.description = f.description,
                 !.category = f.category, !.priority = f.priority,
                 !.assignee = f.assignee, !.estimatedHours = f.estimatedHours,
                 !.technicalPlan = f.technicalPlan]

\* The values handleSubmit can pass to onSave
FormValues == {LoadedForm} \cup {Typed(LoadedForm, f) : f \in TypedFields}

-----------------------------------------------------------------------------
(* Permission logic of the components *)

\* TaskModal that never locks the form
isReadOnly_Off == FALSE

\* TaskModal: isReadOnly
isReadOnly == user.role = "EMPLOYEE"

\* StatusColumn: isAssignee
isAssignee(task) ==
    /\ user.name # Str_Empty
    /\ Includes(ToLowerCase(task.assignee), ToLowerCase(FirstToken(user.name)))

\* StatusColumn: canDrag
canDrag(task) == user.role # "EMPLOYEE" \/ isAssignee(task)

\* TaskBoard that renders "Initialize New" for every role
canCreateProject_Everyone == TRUE

\* TaskBoard: canDelete, canCreateProject, canCreateTask
canDelete == user.role = "ADMIN" \/ user.role = "MANAGER"
canCreateProject == user.role = "ADMIN" \/ user.role = "MANAGER"
canCreateTask == user.role = "ADMIN" \/ user.role = "MANAGER"

\* TaskBoard: projectTasks, as positions in tasks
projectTasks == {i \in 1..Len(tasks) : tasks[i].projectId = activeProjectId}

-----------------------------------------------------------------------------
(* Handlers of App: each states the variables it assigns *)

\* handleCreateProject that draws one id for the project and another for
\* the selection
handleCreateProject_TwoIds(name, description) ==
    \E id \in RandomIds, selected \in RandomIds :
        /\ projects' = Append(projects,
                              [id |-> id, name |-> name, description |-> description])
        /\ activeProjectId' = selected

handleCreateProject(name, description) ==
    \E id \in RandomIds :
        /\ projects' = Append(projects,
                              [id |-> id, name |-> name, description |-> description])
        /\ activeProjectId' = id

\* The fields onSave merges into a task
Merged(t, taskData) ==
    [t EXCEPT !.title = taskData.title,
              !.description = taskData.description,
              !.category = taskData.category,
              !.priority = taskData.priority,
              !.assignee = taskData.assignee,
              !.status = taskData.status,
              !.acceptanceCriteria = taskData.acceptanceCriteria,
              !.estimatedHours = taskData.estimatedHours,
              !.technicalPlan = taskData.technicalPlan]

\* handleSaveTask whose create branch files every new task under TODO
handleSaveTask_AlwaysTodo(taskData) ==
    /\ IF taskToEdit # NoTask
       THEN /\ tasks' = [i \in 1..Len(tasks) |->
                           IF tasks[i].id = taskToEdit[1].id
                           THEN Merged(tasks[i], taskData)
                           ELSE tasks[i]]
            /\ now' = now
       ELSE \E id \in RandomIds, createdAt \in Clock :
               /\ tasks' = Append(tasks,
                     [Merged(INITIAL_TASKS[1], taskData) EXCEPT
                        !.id = id, !.projectId = activeProjectId,
                        !.status = "TODO", !.createdAt = createdAt])
               /\ now' = createdAt
    /\ taskToEdit' = NoTask

\* handleSaveTask whose edit branch lacks the id test
handleSaveTask_EditsAll(taskData) ==
    /\ IF taskToEdit # NoTask
       THEN /\ tasks' = [i \in 1..Len(tasks) |-> Merged(tasks[i], taskData)]
            /\ now' = now
       ELSE \E id \in RandomIds, createdAt \in Clock :
               /\ tasks' = Append(tasks,
                     [Merged(INITIAL_TASKS[1], taskData) EXCEPT
                        !.id = id, !.projectId = activeProjectId,
                        !.createdAt = createdAt])
               /\ now' = createdAt
    /\ taskToEdit' = NoTask

handleSaveTask(taskData) ==
    /\ IF taskToEdit # NoTask
       THEN /\ tasks' = [i \in 1..Len(tasks) |->
                           IF tasks[i].id = taskToEdit[1].id
                           THEN Merged(tasks[i], taskData)
                           ELSE tasks[i]]
            /\ now' = now
       ELSE \E id \in RandomIds, createdAt \in Clock :
               /\ tasks' = Append(tasks,
                     [id |-> id, projectId |-> activeProjectId,
                      title |-> taskData.title,
                      description |-> taskData.description,
                      status |-> taskData.status,
                      category |-> taskData.category,
                      assignee |-> taskData.assignee,
                      priority |-> taskData.priority,
                      acceptanceCriteria |-> taskData.acceptanceCriteria,
                      estimatedHours |-> taskData.estimatedHours,
                      technicalPlan |-> taskData.technicalPlan,
                      createdAt |-> createdAt])
               /\ now' = createdAt
    /\ taskToEdit' = NoTask

\* handleDeleteTask without the role test
handleDeleteTask_NoRoleTest(taskId) ==
    \E confirmed \in BOOLEAN :
        IF confirmed
        THEN /\ dialog' = "confirm accepted"
             /\ tasks' = SelectSeq(tasks, LAMBDA t : t.id # taskId)
        ELSE /\ dialog' = "confirm declined"
             /\ tasks' = tasks

\* handleDeleteTask that filters whatever confirm() returned
handleDeleteTask_IgnoresConfirm(taskId) ==
    IF user.role = "EMPLOYEE"
    THEN /\ dialog' = "alert"
         /\ tasks' = tasks
    ELSE \E confirmed \in BOOLEAN :
            /\ dialog' = IF confirmed THEN "confirm accepted" ELSE "confirm declined"
            /\ tasks' = SelectSeq(tasks, LAMBDA t : t.id # taskId)

handleDeleteTask(taskId) ==
    IF user.role = "EMPLOYEE"
    THEN /\ dialog' = "alert"
         /\ tasks' = tasks
    ELSE \E confirmed \in BOOLEAN :
            IF confirmed
            THEN /\ dialog' = "confirm accepted"
                 /\ tasks' = SelectSeq(tasks, LAMBDA t : t.id # taskId)
            ELSE /\ dialog' = "confirm declined"
                 /\ tasks' = tasks

\* Position of a status in the order of the columns
ColumnOf(status) ==
    CASE status = "TODO" -> 1 [] status = "IN_PROGRESS" -> 2
      [] status = "REVIEW" -> 3 [] status = "DONE" -> 4

\* handleStatusChange that only moves a task to a later column
handleStatusChange_ForwardOnly(taskId, newStatus) ==
    tasks' = [i \in 1..Len(tasks) |->
                IF tasks[i].id = taskId
                   /\ ColumnOf(newStatus) > ColumnOf(tasks[i].status)
                THEN [tasks[i] EXCEPT !.status = newStatus]
                ELSE tasks[i]]

handleStatusChange(taskId, newStatus) ==
    tasks' = [i \in 1..Len(tasks) |->
                IF tasks[i].id = taskId
                THEN [tasks[i] EXCEPT !.status = newStatus]
                ELSE tasks[i]]

openNewTaskModal ==
    /\ taskToEdit' = NoTask
    /\ isModalOpen' = TRUE

openEditTaskModal(task) ==
    /\ taskToEdit' = <<task>>
    /\ isModalOpen' = TRUE

-----------------------------------------------------------------------------
(* The live meeting: one record under a localStorage key that every tab of  *)
(* the origin reads and writes, and per tab the App state liveMeeting and   *)
(* the state, refs and resources of the MeetingRoom component               *)

\* Browser tabs (browsing contexts) of the origin
Contexts == {"tab1", "tab2"}

\* Date.now() never exceeds this value in a meeting behaviour
MaxTime == 1

\* String.prototype.trim on the characters in use
RECURSIVE TrimStart(_)
TrimStart(s) ==
    IF s # << >> /\ Head(s) = " " THEN TrimStart(Tail(s)) ELSE s

RECURSIVE TrimEnd(_)
TrimEnd(s) ==
    IF s # << >> /\ s[Len(s)] = " " THEN TrimEnd(SubSeq(s, 1, Len(s) - 1)) ELSE s

\* A topic test that forgets trim()
Trim_Omitted(s) == s

Trim(s) == TrimEnd(TrimStart(s))

\* What a host can type into the "Meeting Agenda" input
Topics == {Str_Empty, <<" ">>, <<"Q", "3">>}

\* liveMeeting is a sequence: << >> when null, <<meeting>> otherwise
NoMeeting == << >>

\* localStorage.getItem: << >> when the key is absent, <<item>> otherwise
NoItem == << >>

\* JSON.stringify of a LiveMeeting, and a stored string that is not JSON
Stringify(meeting) == [wellFormed |-> TRUE, value |-> <<meeting>>]
Malformed == [wellFormed |-> FALSE, value |-> << >>]

\* JSON.parse of an item that is JSON; on a Malformed item it throws
Parse(item) == item.value[1]

\* The setError messages of MeetingRoom; NoError is null
NoError == ""
ErrCameraDenied == "Could not access camera/microphone"
ErrCameraRequired == "Camera must be enabled"
ErrTopic == "Please define a meeting topic"
ErrConnection == "Connection Lost"

\* MeetingRoom as it mounts: useState and useRef initial values
MeetingRoomMount(t) ==
    [t EXCEPT !.view = "Lobby", !.stream = FALSE, !.meetingTopic = Str_Empty,
              !.error = NoError, !.isLive = FALSE,
              !.audioRefs = FALSE, !.frameInterval = FALSE, !.connect = "none",
              !.transcript = FALSE]

\* The message App's chat starts with
ChatGreeting ==
    [role |-> "model",
     text |-> <<"Ready for duty. How can I assist with the mission objectives?">>]

\* The message handleSendMessage substitutes when chatWithTechLead throws
ChatPlaceholder ==
    [role |-> "model", text |-> <<"Connection interrupted. Secure link failed.">>]

\* A tab after App mounted with user u logged in
Mounted(u) ==
    [user |-> u,                \* AuthContext user of the tab
     activeTab |-> "dashboard", \* App activeTab: "meet" or any other tab
     liveMeeting |-> NoMeeting, \* App liveMeeting
     view |-> "Lobby",          \* MeetingRoom view
     stream |-> FALSE,          \* MeetingRoom stream is not null
     meetingTopic |-> Str_Empty,
     error |-> NoError,
     isLive |-> FALSE,
     audioRefs |-> FALSE,       \* inputContextRef and audioContextRef are set
     frameInterval |-> FALSE,   \* frameIntervalRef holds a running interval
     connect |-> "none",        \* how far connectToGemini of this mount got
     tracks |-> FALSE,          \* tracks of a stream this tab acquired are live
     audioContexts |-> FALSE,   \* AudioContexts this tab created are open
     transcript |-> FALSE,      \* transcript or a transcription buffer has content
     summarizing |-> 0,         \* summarizeMeeting calls of handleLeaveCall pending
     meetingHistory |-> << >>,  \* App meetingHistory
     sessionStorage |-> IF u = NoUser THEN NoItem ELSE <<Stringify(u)>>,
     loginTimers |-> << >>,     \* e-mails of the login() calls whose timer runs
     chatMessages |-> <<ChatGreeting>>,
     chatInput |-> Str_Empty,
     isChatLoading |-> FALSE,   \* set while chatWithTechLead is awaited
     stopUnseen |-> FALSE,      \* another tab stopped the meeting since the last poll
     fault |-> "none"]          \* what the last step of the tab showed or threw

\* MeetingRoom: isHost
isHost(t) == t.user.role = "ADMIN" \/ t.user.role = "MANAGER"

\* MeetingRoom: liveMeeting && liveMeeting.isActive
isMeetingActive(t) == t.liveMeeting # NoMeeting /\ t.liveMeeting[1].isActive

\* MeetingRoom cleanup(): the interval and the contexts the refs hold
cleanup(t) ==
    [t EXCEPT !.frameInterval = FALSE,
              !.audioContexts = IF t.audioRefs THEN FALSE ELSE t.audioContexts,
              !.audioRefs = FALSE]

\* MeetingRoom stopCamera() of the current render
stopCamera(t) ==
    IF t.stream THEN [t EXCEPT !.tracks = FALSE, !.stream = FALSE] ELSE t

\* The effect on [liveMeeting, view]: remote termination
RemoteTermination(t) ==
    IF t.activeTab = "meet" /\ t.view = "Live" /\ ~isMeetingActive(t)
    THEN [stopCamera(cleanup([t EXCEPT !.isLive = FALSE]))
            EXCEPT !.view = "Lobby", !.fault = "alert"]
    ELSE t

\* A record that lists nobody and carries the host's id as meeting id
NewLiveMeeting_HostNotListed(u, topic, id, startTime) ==
    [id |-> id, hostId |-> u.id, hostName |-> u.name, topic |-> topic,
     startTime |-> startTime, isActive |-> TRUE, participants |-> << >>]

\* The record handleStartLiveMeeting builds
NewLiveMeeting(u, topic, id, startTime) ==
    [id |-> id, hostId |-> u.id, hostName |-> u.name, topic |-> topic,
     startTime |-> startTime, isActive |-> TRUE, participants |-> <<u.name>>]

\* handleStartLiveMeeting(topic): the tab and the store after the call
handleStartLiveMeeting(t, topic, id, startTime) ==
    LET meeting == NewLiveMeeting(t.user, topic, id, startTime)
    IN  [tab |-> [t EXCEPT !.liveMeeting = <<meeting>>],
         store |-> <<Stringify(meeting)>>]

\* handleJoinLiveMeeting without the includes() test
handleJoinLiveMeeting_AlwaysPush(t, store) ==
    IF t.liveMeeting = NoMeeting
    THEN [tab |-> t, store |-> store]
    ELSE LET updatedMeeting ==
                 [t.liveMeeting[1] EXCEPT !.participants = Append(@, t.user.name)]
         IN  [tab |-> [t EXCEPT !.liveMeeting = <<updatedMeeting>>],
              store |-> <<Stringify(updatedMeeting)>>]

\* handleJoinLiveMeeting(): the tab and the store after the call
handleJoinLiveMeeting(t, store) ==
    IF t.liveMeeting = NoMeeting
    THEN [tab |-> t, store |-> store]
    ELSE LET meeting == t.liveMeeting[1]
             names == {meeting.participants[i] : i \in 1..Len(meeting.participants)}
             updatedMeeting ==
                 [meeting EXCEPT !.participants = Append(@, t.user.name)]
         IN  IF t.user.name \notin names
             THEN [tab |-> [t EXCEPT !.liveMeeting = <<updatedMeeting>>],
                   store |-> <<Stringify(updatedMeeting)>>]
             ELSE [tab |-> t, store |-> store]

\* handleStopLiveMeeting(): the tab and the store after the call
handleStopLiveMeeting(t) ==
    [tab |-> [t EXCEPT !.liveMeeting = NoMeeting], store |-> NoItem]

\* checkMeeting(): the tab after one poll of the store
checkMeeting(t, store) ==
    IF store = NoItem
    THEN [t EXCEPT !.liveMeeting = NoMeeting]
    ELSE IF store[1].wellFormed
         THEN [t EXCEPT !.liveMeeting = <<Parse(store[1])>>]
         ELSE [t EXCEPT !.fault = "SyntaxError"]

\* connectToGemini() up to its first await: two AudioContexts are created
connectToGemini(t) ==
    [t EXCEPT !.error = NoError, !.transcript = FALSE,
              !.audioContexts = TRUE, !.connect = "resuming"]

-----------------------------------------------------------------------------
(* Spec: the controls the components render, and what each one calls *)

Tabs == {"dashboard", "board", "team"}

ProjectNames == {"Titan"}

LoggedIn == user # NoUser

\* No drag session is under way: a drag holds the pointer until drop or end
Idle == LoggedIn /\ dataTransfer = NoDrag

\* Neither modal covers the page: both are fixed full-screen overlays above
\* the sidebar and the board
Uncovered == Idle /\ ~isModalOpen /\ ~isProjectModalOpen

\* The board is rendered
OnBoard == Uncovered /\ activeTab = "board"

\* AuthContext login with the e-mail of a mock user
Login(u) ==
    /\ user = NoUser
    /\ user' = u
    /\ UNCHANGED <<activeTab, projects, activeProjectId, tasks, isModalOpen,
                   taskToEdit, isProjectModalOpen, dataTransfer, now>>
    /\ dialog' = "none"
    /\ writes' = writes
    /\ UNCHANGED meetVars

\* AuthContext logout; App renders Login, so TaskBoard unmounts
Logout ==
    /\ Uncovered
    /\ user' = NoUser
    /\ isProjectModalOpen' = FALSE
    /\ UNCHANGED <<activeTab, projects, activeProjectId, tasks, isModalOpen,
                   taskToEdit, dataTransfer, now>>
    /\ dialog' = "none"
    /\ writes' = writes
    /\ UNCHANGED meetVars

\* Sidebar buttons: setActiveTab; TaskBoard and its modal state live on 'board'
SetActiveTab(tab) ==
    /\ Uncovered
    /\ tab # activeTab
    /\ activeTab' = tab
    /\ isProjectModalOpen' = FALSE
    /\ UNCHANGED <<user, projects, activeProjectId, tasks, isModalOpen,
                   taskToEdit, dataTransfer, now>>
    /\ dialog' = "none"
    /\ writes' = writes
    /\ UNCHANGED meetVars

\* Project sidebar: onSelectProject(project.id)
SelectProject(k) ==
    /\ OnBoard
    /\ k \in 1..Len(projects)
    /\ activeProjectId' = projects[k].id
    /\ UNCHANGED <<user, activeTab, projects, tasks, isModalOpen, taskToEdit,
                   isProjectModalOpen, dataTransfer, now>>
    /\ dialog' = "none"
    /\ writes' = writes
    /\ UNCHANGED meetVars

\* "Initialize New", rendered when canCreateProject
OpenProjectModal ==
    /\ OnBoard
    /\ canCreateProject
    /\ isProjectModalOpen' = TRUE
    /\ UNCHANGED <<user, activeTab, projects, activeProjectId, tasks,
                   isModalOpen, taskToEdit, dataTransfer, now>>
    /\ dialog' = "none"
    /\ writes' = writes
    /\ UNCHANGED meetVars

\* CreateProjectModal "Abort"
CloseProjectModal ==
    /\ Idle
    /\ isProjectModalOpen
    /\ isProjectModalOpen' = FALSE
    /\ UNCHANGED <<user, activeTab, projects, activeProjectId, tasks,
                   isModalOpen, taskToEdit, dataTransfer, now>>
    /\ dialog' = "none"
    /\ writes' = writes
    /\ UNCHANGED meetVars

\* CreateProjectModal handleSubmit: both inputs are required
SubmitProject(name, description) ==
    /\ Idle
    /\ isProjectModalOpen
    /\ name # "" /\ description # ""
    /\ writes < MaxWrites
    /\ handleCreateProject(name, description)
    /\ isProjectModalOpen' = FALSE
    /\ UNCHANGED <<user, activeTab, tasks, isModalOpen, taskToEdit,
                   dataTransfer, now>>
    /\ dialog' = "none"
    /\ writes' = writes + 1
    /\ UNCHANGED meetVars

\* "Add Objective", rendered when canCreateTask
ClickNewTask ==
    /\ OnBoard
    /\ canCreateTask
    /\ openNewTaskModal
    /\ UNCHANGED <<user, activeTab, projects, activeProjectId, tasks,
                   isProjectModalOpen, dataTransfer, now>>
    /\ dialog' = "none"
    /\ writes' = writes
    /\ UNCHANGED meetVars

\* The edit / view button of a card
ClickEditTask(i) ==
    /\ OnBoard
    /\ i \in projectTasks
    /\ openEditTaskModal(tasks[i])
    /\ UNCHANGED <<user, activeTab, projects, activeProjectId, tasks,
                   isProjectModalOpen, dataTransfer, now>>
    /\ dialog' = "none"
    /\ writes' = writes
    /\ UNCHANGED meetVars

\* TaskModal "Close" and the X button: onClose
CloseTaskModal ==
    /\ Idle
    /\ isModalOpen
    /\ isModalOpen' = FALSE
    /\ UNCHANGED <<user, activeTab, projects, activeProjectId, tasks,
                   taskToEdit, isProjectModalOpen, dataTransfer, now>>
    /\ dialog' = "none"
    /\ writes' = writes
    /\ UNCHANGED meetVars

\* TaskModal submit button, rendered when not isReadOnly: handleSubmit.
\* The title input is required.
SubmitTask(taskData) ==
    /\ Idle
    /\ isModalOpen
    /\ ~isReadOnly
    /\ taskData \in FormValues
    /\ taskData.title # ""
    /\ writes < MaxWrites
    /\ handleSaveTask(taskData)
    /\ isModalOpen' = FALSE
    /\ UNCHANGED <<user, activeTab, projects, activeProjectId,
                   isProjectModalOpen, dataTransfer>>
    /\ dialog' = "none"
    /\ writes' = writes + 1
    /\ UNCHANGED meetVars

\* The X button of a card, rendered when canDelete
ClickDelete(i) ==
    /\ OnBoard
    /\ canDelete
    /\ i \in projectTasks
    /\ writes < MaxWrites
    /\ handleDeleteTask(tasks[i].id)
    /\ UNCHANGED <<user, activeTab, projects, activeProjectId, isModalOpen,
                   taskToEdit, isProjectModalOpen, dataTransfer, now>>
    /\ writes' = IF tasks' # tasks THEN writes + 1 ELSE writes
    /\ UNCHANGED meetVars

\* The status <select> of a card, rendered when canDrag
SelectStatus(i, s) ==
    /\ OnBoard
    /\ i \in projectTasks
    /\ canDrag(tasks[i])
    /\ writes < MaxWrites
    /\ handleStatusChange(tasks[i].id, s)
    /\ UNCHANGED <<user, activeTab, projects, activeProjectId, isModalOpen,
                   taskToEdit, isProjectModalOpen, dataTransfer, now>>
    /\ dialog' = "none"
    /\ writes' = writes + 1
    /\ UNCHANGED meetVars

\* onDragStart of a card: canDrag && handleDragStart(e, task.id)
DragStart(i) ==
    /\ OnBoard
    /\ i \in projectTasks
    /\ dataTransfer' = IF canDrag(tasks[i]) THEN tasks[i].id ELSE EmptyData
    /\ UNCHANGED <<user, activeTab, projects, activeProjectId, tasks,
                   isModalOpen, taskToEdit, isProjectModalOpen, now>>
    /\ dialog' = "none"
    /\ writes' = writes
    /\ UNCHANGED meetVars

\* handleDrop of the column of status s
Drop(s) ==
    /\ LoggedIn
    /\ dataTransfer # NoDrag
    /\ dataTransfer # EmptyData => writes < MaxWrites
    /\ IF dataTransfer # EmptyData
       THEN handleStatusChange(dataTransfer, s)
       ELSE tasks' = tasks
    /\ dataTransfer' = NoDrag
    /\ UNCHANGED <<user, activeTab, projects, activeProjectId, isModalOpen,
                   taskToEdit, isProjectModalOpen, now>>
    /\ dialog' = "none"
    /\ writes' = IF dataTransfer # EmptyData THEN writes + 1 ELSE writes
    /\ UNCHANGED meetVars

\* The drag ends outside every column
DragEnd ==
    /\ LoggedIn
    /\ dataTransfer # NoDrag
    /\ dataTransfer' = NoDrag
    /\ UNCHANGED <<user, activeTab, projects, activeProjectId, tasks,
                   isModalOpen, taskToEdit, isProjectModalOpen, now>>
    /\ dialog' = "none"
    /\ writes' = writes
    /\ UNCHANGED meetVars

\* TeamBoard, personal view "Active Objectives": the cards an EMPLOYEE sees
myActiveTasks ==
    {i \in 1..Len(tasks) :
        /\ \/ Includes(user.name, tasks[i].assignee)
           \/ Includes(tasks[i].assignee, FirstToken(user.name))
        /\ tasks[i].status # "DONE"}

\* TeamBoard handlePersonalAnalyze / handleGenerateStandup: myTasks
myTasks ==
    {i \in 1..Len(tasks) :
        \/ Includes(user.name, tasks[i].assignee)
        \/ Includes(tasks[i].assignee, FirstToken(user.name))}

\* TeamBoard: onNavigateToTask(task.projectId)
NavigateToTask(i) ==
    /\ Uncovered
    /\ activeTab = "team"
    /\ user.role = "EMPLOYEE"
    /\ i \in myActiveTasks
    /\ activeProjectId' = tasks[i].projectId
    /\ activeTab' = "board"
    /\ UNCHANGED <<user, projects, tasks, isModalOpen, taskToEdit,
                   isProjectModalOpen, dataTransfer, now>>
    /\ dialog' = "none"
    /\ writes' = writes
    /\ UNCHANGED meetVars

Init ==
    /\ user = NoUser
    /\ activeTab = "dashboard"
    /\ projects = INITIAL_PROJECTS
    /\ activeProjectId = INITIAL_PROJECTS[1].id
    /\ tasks = INITIAL_TASKS
    /\ isModalOpen = FALSE
    /\ taskToEdit = NoTask
    /\ isProjectModalOpen = FALSE
    /\ dataTransfer = NoDrag
    /\ dialog = "none"
    /\ now = 1
    /\ writes = 0
    /\ ctx = [c \in Contexts |-> Mounted(NoUser)]
    /\ localStorage = NoItem

Next ==
    \/ \E u \in MOCK_USERS : Login(u)
    \/ Logout
    \/ \E tab \in Tabs : SetActiveTab(tab)
    \/ \E k \in 1..Len(projects) : SelectProject(k)
    \/ OpenProjectModal
    \/ CloseProjectModal
    \/ \E name \in ProjectNames, description \in ProjectNames :
          SubmitProject(name, description)
    \/ ClickNewTask
    \/ \E i \in 1..Len(tasks) : ClickEditTask(i)
    \/ CloseTaskModal
    \/ \E taskData \in FormValues : SubmitTask(taskData)
    \/ \E i \in 1..Len(tasks) : ClickDelete(i)
    \/ \E i \in 1..Len(tasks), s \in TaskStatus : SelectStatus(i, s)
    \/ \E i \in 1..Len(tasks) : DragStart(i)
    \/ \E s \in TaskStatus : Drop(s)
    \/ DragEnd
    \/ \E i \in 1..Len(tasks) : NavigateToTask(i)

Spec == Init /\ [][Next]_vars

-----------------------------------------------------------------------------
(* SpecCtl: the handlers of App called directly, as the props of TaskBoard  *)
(* and TaskModal allow, by any logged-in user and with any argument         *)

\* Ids a caller can pass: those of the initial tasks and any generated string
CtlIds == {INITIAL_TASKS[i].id : i \in 1..Len(INITIAL_TASKS)} \cup RandomIds

\* Task data a caller can pass to onSave
CtlTaskData ==
    {LoadedForm} \cup
    {[Typed(LoadedForm, f) EXCEPT !.status = s] : f \in TypedFields, s \in TaskStatus}

CtlFrame ==
    UNCHANGED <<user, activeTab, isProjectModalOpen, dataTransfer, ctx, localStorage>>

\* onNewTask
CtlNewTask ==
    /\ openNewTaskModal
    /\ dialog' = "none"
    /\ CtlFrame
    /\ UNCHANGED <<projects, activeProjectId, tasks, now, writes>>

\* onEditTask(task)
CtlEditTask(i) ==
    /\ i \in 1..Len(tasks)
    /\ openEditTaskModal(tasks[i])
    /\ dialog' = "none"
    /\ CtlFrame
    /\ UNCHANGED <<projects, activeProjectId, tasks, now, writes>>

\* onSave(taskData)
CtlSaveTask(taskData) ==
    /\ writes < MaxWrites
    /\ handleSaveTask(taskData)
    /\ dialog' = "none"
    /\ writes' = writes + 1
    /\ CtlFrame
    /\ UNCHANGED <<projects, activeProjectId, isModalOpen>>

\* onDeleteTask(taskId)
CtlDeleteTask(taskId) ==
    /\ writes < MaxWrites
    /\ handleDeleteTask(taskId)
    /\ writes' = IF tasks' # tasks THEN writes + 1 ELSE writes
    /\ CtlFrame
    /\ UNCHANGED <<projects, activeProjectId, isModalOpen, taskToEdit, now>>

\* onStatusChange(taskId, newStatus)
CtlStatusChange(taskId, newStatus) ==
    /\ writes < MaxWrites
    /\ handleStatusChange(taskId, newStatus)
    /\ dialog' = "none"
    /\ writes' = writes + 1
    /\ CtlFrame
    /\ UNCHANGED <<projects, activeProjectId, isModalOpen, taskToEdit, now>>

\* onCreateProject(name, description)
CtlCreateProject(name, description) ==
    /\ writes < MaxWrites
    /\ handleCreateProject(name, description)
    /\ dialog' = "none"
    /\ writes' = writes + 1
    /\ CtlFrame
    /\ UNCHANGED <<tasks, isModalOpen, taskToEdit, now>>

InitCtl ==
    /\ user \in MOCK_USERS
    /\ activeTab = "board"
    /\ projects = INITIAL_PROJECTS
    /\ activeProjectId = INITIAL_PROJECTS[1].id
    /\ tasks = INITIAL_TASKS
    /\ isModalOpen = FALSE
    /\ taskToEdit = NoTask
    /\ isProjectModalOpen = FALSE
    /\ dataTransfer = NoDrag
    /\ dialog = "none"
    /\ now = 1
    /\ writes = 0
    /\ ctx = [c \in Contexts |-> Mounted(NoUser)]
    /\ localStorage = NoItem

NextCtl ==
    \/ CtlNewTask
    \/ \E i \in 1..Len(tasks) : CtlEditTask(i)
    \/ \E taskData \in CtlTaskData : CtlSaveTask(taskData)
    \/ \E taskId \in CtlIds : CtlDeleteTask(taskId)
    \/ \E taskId \in CtlIds, newStatus \in TaskStatus :
          CtlStatusChange(taskId, newStatus)
    \/ \E name \in ProjectNames, description \in ProjectNames :
          CtlCreateProject(name, description)

SpecCtl == InitCtl /\ [][NextCtl]_vars

-----------------------------------------------------------------------------
(* SpecMeet: two tabs of the origin, both showing the meeting page.  A step *)
(* is one event handler or timer callback of one tab; the effects that the  *)
(* state change triggers run within the step.  The connection of a tab to   *)
(* the AI service is followed in SpecRoom.                                  *)

\* Bound: the sessions one tab records in a behaviour
MaxSessions == 1

\* Date.now() for a meeting behaviour
MeetClock == {t \in Clock : t <= MaxTime}

\* Tab c becomes t; the other tabs and the board stay as they are
TabBecomes(c, t) ==
    /\ ctx' = [ctx EXCEPT ![c] = t]
    /\ UNCHANGED boardVars

\* Sidebar: setActiveTab('meet'); MeetingRoom mounts
OpenMeetTab(c) ==
    /\ ctx[c].activeTab # "meet"
    /\ TabBecomes(c, MeetingRoomMount([ctx[c] EXCEPT !.activeTab = "meet",
                                                     !.fault = "none"]))
    /\ UNCHANGED <<localStorage, now>>

\* Sidebar: another tab is selected; MeetingRoom unmounts.  The unmount
\* function is the one of the first render: its cleanup() reads the refs, its
\* stopCamera() sees the stream of the first render, which is null.
LeaveMeetTab(c) ==
    /\ ctx[c].activeTab = "meet"
    /\ TabBecomes(c, MeetingRoomMount([cleanup(ctx[c]) EXCEPT
                                          !.activeTab = "dashboard",
                                          !.fault = "none"]))
    /\ UNCHANGED <<localStorage, now>>

\* "Enable Camera & Mic": startCamera, getUserMedia granted or denied
StartCamera(c, granted) ==
    /\ ctx[c].activeTab = "meet"
    /\ ctx[c].view = "Lobby"
    /\ ~ctx[c].stream
    /\ TabBecomes(c, IF granted
                     THEN [ctx[c] EXCEPT !.error = NoError, !.stream = TRUE,
                                         !.tracks = TRUE, !.fault = "none"]
                     ELSE [ctx[c] EXCEPT !.error = ErrCameraDenied,
                                         !.fault = "none"])
    /\ UNCHANGED <<localStorage, now>>

\* The "Meeting Agenda" input, rendered for a host while no meeting is active
TypeTopic(c, topic) ==
    /\ ctx[c].activeTab = "meet"
    /\ ctx[c].view = "Lobby"
    /\ ctx[c].stream
    /\ isHost(ctx[c])
    /\ ~isMeetingActive(ctx[c])
    /\ topic # ctx[c].meetingTopic
    /\ TabBecomes(c, [ctx[c] EXCEPT !.meetingTopic = topic, !.fault = "none"])
    /\ UNCHANGED <<localStorage, now>>

\* MeetingRoom handleStartMeeting of tab c, up to the first await
handleStartMeeting(c) ==
    LET t == [ctx[c] EXCEPT !.fault = "none"]
    IN  IF ~t.stream
        THEN /\ TabBecomes(c, [t EXCEPT !.error = ErrCameraRequired])
             /\ UNCHANGED <<localStorage, now>>
        ELSE IF isHost(t) /\ ~isMeetingActive(t)
        THEN IF Trim(t.meetingTopic) = Str_Empty
             THEN /\ TabBecomes(c, [t EXCEPT !.error = ErrTopic])
                  /\ UNCHANGED <<localStorage, now>>
             ELSE \E id \in RandomIds, startTime \in MeetClock :
                     LET r == handleStartLiveMeeting(t, t.meetingTopic, id, startTime)
                     IN  /\ TabBecomes(c, RemoteTermination(connectToGemini(
                                              [r.tab EXCEPT !.view = "Live"])))
                         /\ localStorage' = r.store
                         /\ now' = startTime
        ELSE LET r == handleJoinLiveMeeting(t, localStorage)
             IN  /\ TabBecomes(c, RemoteTermination(connectToGemini(
                                      [r.tab EXCEPT !.view = "Live"])))
                 /\ localStorage' = r.store
                 /\ now' = now

\* "Broadcast & Start", "Join Session", "Rejoin Session": rendered in the
\* lobby once a stream is held, for a host or while a meeting is active.  The
\* handler also guards itself against a call while no stream is held.
ClickStartOrJoin(c) ==
    /\ ctx[c].activeTab = "meet"
    /\ ctx[c].view = "Lobby"
    /\ ctx[c].stream => (isHost(ctx[c]) \/ isMeetingActive(ctx[c]))
    /\ handleStartMeeting(c)

\* connectToGemini after both resume() promises: the refs take the contexts
\* and live.connect is called
ConnectResumed(c) ==
    /\ ctx[c].connect = "resuming"
    /\ TabBecomes(c, [ctx[c] EXCEPT !.audioRefs = TRUE, !.connect = "connecting",
                                    !.fault = "none"])
    /\ UNCHANGED <<localStorage, now>>

\* live.connect callback onopen
GeminiOpen(c) ==
    /\ ctx[c].connect = "connecting"
    /\ TabBecomes(c, [ctx[c] EXCEPT !.isLive = TRUE,
                                    !.frameInterval = TRUE, !.connect = "open",
                                    !.fault = "none"])
    /\ UNCHANGED <<localStorage, now>>

\* live.connect callback onerror
GeminiError(c) ==
    /\ ctx[c].connect \in {"connecting", "open"}
    /\ TabBecomes(c, cleanup([ctx[c] EXCEPT !.error = ErrConnection,
                                            !.isLive = FALSE, !.connect = "none",
                                            !.fault = "none"]))
    /\ UNCHANGED <<localStorage, now>>

\* "Leave Call": handleLeaveCall
LeaveCall(c) ==
    /\ ctx[c].activeTab = "meet"
    /\ ctx[c].view = "Live"
    /\ TabBecomes(c, [stopCamera(cleanup([ctx[c] EXCEPT !.isLive = FALSE]))
                        EXCEPT !.view = "Summary", !.fault = "none",
                               !.summarizing = IF ctx[c].transcript
                                               THEN @ + 1 ELSE @])
    /\ UNCHANGED <<localStorage, now>>

\* live.connect callback onmessage: a transcription arrives.  The sessions a
\* tab records are bounded by MaxSessions.
GeminiMessage(c) ==
    /\ ctx[c].activeTab = "meet"
    /\ ctx[c].connect = "open"
    /\ ~ctx[c].transcript
    /\ Len(ctx[c].meetingHistory) + ctx[c].summarizing < MaxSessions
    /\ TabBecomes(c, [ctx[c] EXCEPT !.transcript = TRUE, !.fault = "none"])
    /\ UNCHANGED <<localStorage, now>>

\* handleLeaveCall after await summarizeMeeting(finalTranscript), which
\* catches every error: onEndMeeting(session)
SummarizeReturned(c) ==
    /\ ctx[c].summarizing > 0
    /\ \E id \in RandomIds :
          TabBecomes(c, [ctx[c] EXCEPT
                            !.summarizing = @ - 1,
                            !.meetingHistory = <<[id |-> id]>> \o @,
                            !.fault = "none"])
    /\ UNCHANGED <<localStorage, now>>

\* "Return to Lobby" of the summary view
ReturnToLobby(c) ==
    /\ ctx[c].activeTab = "meet"
    /\ ctx[c].view = "Summary"
    /\ TabBecomes(c, [ctx[c] EXCEPT !.view = "Lobby", !.fault = "none"])
    /\ UNCHANGED <<localStorage, now>>

\* "Return to Lobby" of the error box of the live view
ReturnFromError(c) ==
    /\ ctx[c].activeTab = "meet"
    /\ ctx[c].view = "Live"
    /\ ctx[c].error # NoError
    /\ TabBecomes(c, [ctx[c] EXCEPT !.view = "Lobby", !.fault = "none"])
    /\ UNCHANGED <<localStorage, now>>

\* MeetingRoom handleTerminateSession of tab c: confirm(), then onStopLiveMeeting
handleTerminateSession(c) ==
    \E confirmed \in BOOLEAN :
        IF confirmed
        THEN LET r == handleStopLiveMeeting(ctx[c])
             IN  /\ ctx' = [d \in Contexts |->
                              IF d = c
                              THEN RemoteTermination(
                                      [r.tab EXCEPT !.fault = "confirm accepted"])
                              ELSE [ctx[d] EXCEPT !.stopUnseen = TRUE]]
                 /\ localStorage' = r.store
        ELSE /\ ctx' = [ctx EXCEPT ![c].fault = "confirm declined"]
             /\ localStorage' = localStorage

\* "End Meeting": rendered in the lobby for a host while a meeting is active
ClickEndMeeting(c) ==
    /\ ctx[c].activeTab = "meet"
    /\ ctx[c].view = "Lobby"
    /\ ctx[c].stream
    /\ isMeetingActive(ctx[c])
    /\ isHost(ctx[c])
    /\ handleTerminateSession(c)
    /\ UNCHANGED boardVars
    /\ now' = now

\* The interval of App: checkMeeting, then the effects of the new liveMeeting
Poll(c) ==
    /\ TabBecomes(c, RemoteTermination(
                        checkMeeting([ctx[c] EXCEPT !.stopUnseen = FALSE,
                                                   !.fault = "none"],
                                     localStorage)))
    /\ UNCHANGED <<localStorage, now>>

\* Another script of the origin stores a string that is not JSON under the key
CorruptStorage ==
    /\ localStorage # <<Malformed>>
    /\ localStorage' = <<Malformed>>
    /\ UNCHANGED <<ctx, now>>
    /\ UNCHANGED boardVars

InitMeet ==
    /\ user = NoUser
    /\ activeTab = "dashboard"
    /\ projects = INITIAL_PROJECTS
    /\ activeProjectId = INITIAL_PROJECTS[1].id
    /\ tasks = INITIAL_TASKS
    /\ isModalOpen = FALSE
    /\ taskToEdit = NoTask
    /\ isProjectModalOpen = FALSE
    /\ dataTransfer = NoDrag
    /\ dialog = "none"
    /\ now = 1
    /\ writes = 0
    /\ \E u1 \in {u \in MOCK_USERS : u.role = "ADMIN"},
          u2 \in {u \in MOCK_USERS : u.role # "ADMIN"} :
          ctx = [c \in Contexts |->
                   [Mounted(IF c = "tab1" THEN u1 ELSE u2) EXCEPT
                       !.activeTab = "meet"]]
    /\ localStorage = NoItem

NextMeet ==
    \/ \E c \in Contexts, granted \in BOOLEAN : StartCamera(c, granted)
    \/ \E c \in Contexts, topic \in Topics : TypeTopic(c, topic)
    \/ \E c \in Contexts : ClickStartOrJoin(c)
    \/ \E c \in Contexts : LeaveCall(c)
    \/ \E c \in Contexts : ReturnToLobby(c)
    \/ \E c \in Contexts : ClickEndMeeting(c)
    \/ \E c \in Contexts : Poll(c)
    \/ CorruptStorage

SpecMeet == InitMeet /\ [][NextMeet]_vars

-----------------------------------------------------------------------------
(* SpecChat: the AI chat page of one tab.  A send is the handler up to its  *)
(* await and, as a later step, the return of chatWithTechLead.              *)

\* Bound: the messages a user sends in a behaviour
MaxChat == 2

\* What a user types into the chat input
ChatInputs == {Str_Empty, <<" ">>, <<"h", "i">>, <<"s", "t", "a", "t", "u", "s">>}

\* The text of a reply of the model
ReplyTexts == {<<"O", "K">>}

\* The messages of the chat that the user sent
Sent(t) == {i \in 1..Len(t.chatMessages) : t.chatMessages[i].role = "user"}

\* The chat input onChange
TypeChat(c, text) ==
    /\ ctx[c].activeTab = "chat"
    /\ text # ctx[c].chatInput
    /\ TabBecomes(c, [ctx[c] EXCEPT !.chatInput = text, !.fault = "none"])
    /\ UNCHANGED <<localStorage, now>>

\* handleSendMessage up to await chatWithTechLead(history, contextPrompt)
handleSendMessage(t) ==
    IF Trim(t.chatInput) = Str_Empty
    THEN [t EXCEPT !.fault = "none"]
    ELSE [t EXCEPT !.chatMessages = Append(@, [role |-> "user", text |-> t.chatInput]),
                   !.chatInput = Str_Empty,
                   !.isChatLoading = TRUE,
                   !.fault = "none"]

\* "Transmit": the submit button is disabled while isChatLoading || !chatInput
SubmitChat(c) ==
    /\ ctx[c].activeTab = "chat"
    /\ ~ctx[c].isChatLoading
    /\ ctx[c].chatInput # Str_Empty
    /\ Cardinality(Sent(ctx[c])) < MaxChat
    /\ TabBecomes(c, handleSendMessage(ctx[c]))
    /\ UNCHANGED <<localStorage, now>>

\* handleSendMessage after the await: chatWithTechLead returned result.text,
\* which may be empty or undefined, or rethrew the error of the service
ChatReturned(c, outcome) ==
    /\ ctx[c].isChatLoading
    /\ \E text \in ReplyTexts :
          TabBecomes(c, [ctx[c] EXCEPT
              !.chatMessages =
                  CASE outcome = "text"   -> Append(@, [role |-> "model", text |-> text])
                    [] outcome = "empty"  -> @
                    [] outcome = "throws" -> Append(@, ChatPlaceholder),
              !.isChatLoading = FALSE,
              !.fault = "none"])
    /\ UNCHANGED <<localStorage, now>>

InitChat ==
    /\ user = NoUser
    /\ activeTab = "dashboard"
    /\ projects = INITIAL_PROJECTS
    /\ activeProjectId = INITIAL_PROJECTS[1].id
    /\ tasks = INITIAL_TASKS
    /\ isModalOpen = FALSE
    /\ taskToEdit = NoTask
    /\ isProjectModalOpen = FALSE
    /\ dataTransfer = NoDrag
    /\ dialog = "none"
    /\ now = 1
    /\ writes = 0
    /\ \E u \in MOCK_USERS :
          ctx = [c \in Contexts |->
                   IF c = "tab1" THEN [Mounted(u) EXCEPT !.activeTab = "chat"]
                                 ELSE Mounted(NoUser)]
    /\ localStorage = NoItem

NextChat ==
    \/ \E text \in ChatInputs : TypeChat("tab1", text)
    \/ SubmitChat("tab1")
    \/ \E outcome \in {"text", "empty", "throws"} : ChatReturned("tab1", outcome)

SpecChat == InitChat /\ [][NextChat]_vars

-----------------------------------------------------------------------------
(* SpecAuth: AuthProvider in two tabs.  Each tab has its own sessionStorage; *)
(* login() answers after a timer, so a step is the call, the timer callback, *)
(* logout() or a reload of the page.                                         *)

\* Bound: the login() calls of one tab whose timers run at the same time
MaxLoginTimers == 2

\* The e-mails a user submits: the keys of MOCK_USERS and an unknown one
Emails == {"admin@devflow.com", "manager@devflow.com", "employee@devflow.com",
           "nobody@devflow.com"}

\* MOCK_USERS[email]; NoUser stands for undefined
mockUser(email) ==
    CASE email = "admin@devflow.com" ->
            [id |-> "u1", name |-> Str_YassineAdmin, role |-> "ADMIN"]
      [] email = "manager@devflow.com" ->
            [id |-> "u2", name |-> Str_SarahManager, role |-> "MANAGER"]
      [] email = "employee@devflow.com" ->
            [id |-> "u3", name |-> Str_MikeDeveloper, role |-> "EMPLOYEE"]
      [] OTHER -> NoUser

\* login(email) up to setTimeout: the Login page is rendered while no user is
\* logged in; its quick-login buttons are never disabled
login(c, email) ==
    /\ ctx[c].user = NoUser
    /\ Len(ctx[c].loginTimers) < MaxLoginTimers
    /\ TabBecomes(c, [ctx[c] EXCEPT !.loginTimers = Append(@, email),
                                    !.fault = "none"])
    /\ UNCHANGED <<localStorage, now>>

\* The timer callback of login(): setUser and setItem, or reject
loginTimeout(c) ==
    /\ ctx[c].loginTimers # << >>
    /\ LET email == Head(ctx[c].loginTimers)
           t == [ctx[c] EXCEPT !.loginTimers = Tail(@)]
       IN  TabBecomes(c, IF mockUser(email) # NoUser
                         THEN [t EXCEPT !.user = mockUser(email),
                                        !.sessionStorage = <<Stringify(mockUser(email))>>,
                                        !.fault = "none"]
                         ELSE [t EXCEPT !.fault = "Invalid credentials"])
    /\ UNCHANGED <<localStorage, now>>

\* A logout that leaves the stored session in place
logout_KeepsItem(c) ==
    /\ ctx[c].user # NoUser
    /\ TabBecomes(c, [ctx[c] EXCEPT !.user = NoUser, !.fault = "none"])
    /\ UNCHANGED <<localStorage, now>>

\* logout(): the logout button of the sidebar
logout(c) ==
    /\ ctx[c].user # NoUser
    /\ TabBecomes(c, [ctx[c] EXCEPT !.user = NoUser,
                                    !.sessionStorage = NoItem,
                                    !.fault = "none"])
    /\ UNCHANGED <<localStorage, now>>

\* The page of tab c is reloaded: timers and state are gone, sessionStorage
\* stays, and the mount effect of AuthProvider restores the stored user
Reload(c) ==
    /\ ctx[c].sessionStorage # NoItem \/ ctx[c].loginTimers # << >>
    /\ TabBecomes(c, IF ctx[c].sessionStorage # NoItem
                     THEN Mounted(Parse(ctx[c].sessionStorage[1]))
                     ELSE Mounted(NoUser))
    /\ UNCHANGED <<localStorage, now>>

InitAuth ==
    /\ user = NoUser
    /\ activeTab = "dashboard"
    /\ projects = INITIAL_PROJECTS
    /\ activeProjectId = INITIAL_PROJECTS[1].id
    /\ tasks = INITIAL_TASKS
    /\ isModalOpen = FALSE
    /\ taskToEdit = NoTask
    /\ isProjectModalOpen = FALSE
    /\ dataTransfer = NoDrag
    /\ dialog = "none"
    /\ now = 1
    /\ writes = 0
    /\ ctx = [c \in Contexts |-> Mounted(NoUser)]
    /\ localStorage = NoItem

NextAuth ==
    \/ \E c \in Contexts, email \in Emails : login(c, email)
    \/ \E c \in Contexts : loginTimeout(c)
    \/ \E c \in Contexts : logout(c)
    \/ \E c \in Contexts : Reload(c)

SpecAuth == InitAuth /\ [][NextAuth]_vars

-----------------------------------------------------------------------------
(* SpecJoin: the two tabs of SpecMeet, opened by the MANAGER and the         *)
(* EMPLOYEE while the store holds the meeting that the ADMIN started in a    *)
(* third tab, which takes no further step                                    *)

InitJoin ==
    /\ user = NoUser
    /\ activeTab = "dashboard"
    /\ projects = INITIAL_PROJECTS
    /\ activeProjectId = INITIAL_PROJECTS[1].id
    /\ tasks = INITIAL_TASKS
    /\ isModalOpen = FALSE
    /\ taskToEdit = NoTask
    /\ isProjectModalOpen = FALSE
    /\ dataTransfer = NoDrag
    /\ dialog = "none"
    /\ now = 1
    /\ writes = 0
    /\ ctx = [c \in Contexts |->
                [Mounted(mockUser(IF c = "tab1" THEN "manager@devflow.com"
                                                ELSE "employee@devflow.com"))
                   EXCEPT !.activeTab = "meet"]]
    /\ \E id \in RandomIds :
          localStorage = <<Stringify(NewLiveMeeting(mockUser("admin@devflow.com"),
                                                    <<"Q", "3">>, id, 1))>>

SpecJoin == InitJoin /\ [][NextMeet]_vars

-----------------------------------------------------------------------------
(* SpecViews: a MANAGER or ADMIN on the board creates tasks with any text as *)
(* assignee and moves cards, and the derived views of the task list: the     *)
(* columns of TaskBoard, the status counts of Dashboard and the developer    *)
(* statistics of TeamBoard                                                   *)

Str_Unassigned == <<"U", "n", "a", "s", "s", "i", "g", "n", "e", "d">>
Str_constructor == <<"c", "o", "n", "s", "t", "r", "u", "c", "t", "o", "r">>

\* Keys that every object literal inherits from Object.prototype, of which
\* the model types one: for these developers[name] is truthy before any
\* assignment
InheritedKeys == {Str_constructor}

\* What the user types into the form in this specification
ViewTypedFields ==
    { [title |-> "Docs", description |-> "", category |-> "GENERAL",
       priority |-> "LOW", assignee |-> a, estimatedHours |-> 3,
       technicalPlan |-> ""] : a \in {Str_Mike, Str_Empty, Str_constructor} }

\* TaskBoard: the tasks handed to the StatusColumn of status s
StatusColumnTasks(s) == {i \in projectTasks : tasks[i].status = s}

\* Dashboard: the value of the statusData entry of status s
statusData(s) == Cardinality({i \in 1..Len(tasks) : tasks[i].status = s})

\* TeamBoard: const name = task.assignee || 'Unassigned'
DeveloperName(task) ==
    IF task.assignee = Str_Empty THEN Str_Unassigned ELSE task.assignee

\* The sum of estimatedHours || 0 over the tasks at the places S
RECURSIVE SumHours(_)
SumHours(S) ==
    IF S = {} THEN 0
    ELSE LET i == CHOOSE i \in S : TRUE
         IN  tasks[i].estimatedHours + SumHours(S \ {i})

\* TeamBoard: the forEach over the tasks throws a TypeError at the first task
\* whose name is an inherited key: no entry is created for it, and
\* developers[name].categories is undefined
TeamBoardThrows == \E i \in 1..Len(tasks) : DeveloperName(tasks[i]) \in InheritedKeys

\* TeamBoard: the own entries of developers after the forEach
developers ==
    [name \in {DeveloperName(tasks[i]) : i \in 1..Len(tasks)} \ InheritedKeys |->
        LET mine == {i \in 1..Len(tasks) : DeveloperName(tasks[i]) = name}
            done == {i \in mine : tasks[i].status = "DONE"}
        IN  [name |-> name,
             totalTasks |-> Cardinality(mine),
             completedTasks |-> Cardinality(done),
             activeTasks |-> Cardinality(mine \ done),
             totalHoursAssigned |-> SumHours(mine),
             totalHoursCompleted |-> SumHours(done)]]

\* TaskModal submit with f typed into the form
SubmitTypedTask(f) ==
    /\ Idle
    /\ isModalOpen
    /\ ~isReadOnly
    /\ f.title # ""
    /\ writes < MaxWrites
    /\ handleSaveTask(Typed(LoadedForm, f))
    /\ isModalOpen' = FALSE
    /\ UNCHANGED <<user, activeTab, projects, activeProjectId,
                   isProjectModalOpen, dataTransfer>>
    /\ dialog' = "none"
    /\ writes' = writes + 1
    /\ UNCHANGED meetVars

InitViews ==
    /\ user \in {u \in MOCK_USERS : u.role # "EMPLOYEE"}
    /\ activeTab = "board"
    /\ projects = INITIAL_PROJECTS
    /\ activeProjectId = INITIAL_PROJECTS[1].id
    /\ tasks = INITIAL_TASKS
    /\ isModalOpen = FALSE
    /\ taskToEdit = NoTask
    /\ isProjectModalOpen = FALSE
    /\ dataTransfer = NoDrag
    /\ dialog = "none"
    /\ now = 1
    /\ writes = 0
    /\ ctx = [c \in Contexts |-> Mounted(NoUser)]
    /\ localStorage = NoItem

NextViews ==
    \/ \E tab \in Tabs : SetActiveTab(tab)
    \/ ClickNewTask
    \/ \E f \in ViewTypedFields : SubmitTypedTask(f)
    \/ \E i \in 1..Len(tasks), s \in TaskStatus : SelectStatus(i, s)

SpecViews == InitViews /\ [][NextViews]_vars

-----------------------------------------------------------------------------
(* SpecRoom: the whole life of MeetingRoom in tab1, with the promise        *)
(* continuations of its connection, while the App handlers of tab2 are      *)
(* called directly, as the props of MeetingRoom allow                       *)

\* onStartLiveMeeting(topic) of tab c, as MeetingRoom calls it: topic not blank
CtlStartLiveMeeting(c, topic) ==
    /\ Trim(topic) # Str_Empty
    /\ \E id \in RandomIds, startTime \in MeetClock :
          LET r == handleStartLiveMeeting([ctx[c] EXCEPT !.fault = "none"],
                                          topic, id, startTime)
          IN  /\ TabBecomes(c, r.tab)
              /\ localStorage' = r.store
              /\ now' = startTime

\* onStopLiveMeeting() of tab c
CtlStopLiveMeeting(c) ==
    LET r == handleStopLiveMeeting([ctx[c] EXCEPT !.fault = "none"])
    IN  /\ ctx' = [d \in Contexts |->
                     IF d = c THEN r.tab ELSE [ctx[d] EXCEPT !.stopUnseen = TRUE]]
        /\ localStorage' = r.store
        /\ UNCHANGED boardVars
        /\ now' = now

InitRoom ==
    /\ user = NoUser
    /\ activeTab = "dashboard"
    /\ projects = INITIAL_PROJECTS
    /\ activeProjectId = INITIAL_PROJECTS[1].id
    /\ tasks = INITIAL_TASKS
    /\ isModalOpen = FALSE
    /\ taskToEdit = NoTask
    /\ isProjectModalOpen = FALSE
    /\ dataTransfer = NoDrag
    /\ dialog = "none"
    /\ now = 1
    /\ writes = 0
    /\ \E u1 \in MOCK_USERS, u2 \in {u \in MOCK_USERS : u.role = "MANAGER"} :
          ctx = [c \in Contexts |-> Mounted(IF c = "tab1" THEN u1 ELSE u2)]
    /\ localStorage = NoItem

NextRoom ==
    \/ OpenMeetTab("tab1")
    \/ LeaveMeetTab("tab1")
    \/ \E granted \in BOOLEAN : StartCamera("tab1", granted)
    \/ \E topic \in Topics : TypeTopic("tab1", topic)
    \/ ClickStartOrJoin("tab1")
    \/ ConnectResumed("tab1")
    \/ GeminiOpen("tab1")
    \/ GeminiError("tab1")
    \/ GeminiMessage("tab1")
    \/ LeaveCall("tab1")
    \/ SummarizeReturned("tab1")
    \/ ReturnToLobby("tab1")
    \/ ReturnFromError("tab1")
    \/ ClickEndMeeting("tab1")
    \/ Poll("tab1")
    \/ \E topic \in Topics : CtlStartLiveMeeting("tab2", topic)
    \/ CtlStopLiveMeeting("tab2")
    \/ CorruptStorage

SpecRoom == InitRoom /\ [][NextRoom]_vars

-----------------------------------------------------------------------------
(* Properties *)

TaskIds(ts) == {ts[i].id : i \in 1..Len(ts)}

\* C1: a deleteTask attempt by an EMPLOYEE leaves the task collection exactly
\* as it was and shows the denial alert; the confirmation is not asked.
C1_EmployeeDeleteDenied ==
    [][\A taskId \in CtlIds :
          (user.role = "EMPLOYEE" /\ CtlDeleteTask(taskId))
             => (tasks' = tasks /\ dialog' = "alert")]_vars

\* An EMPLOYEE has just been refused the deletion of a stored task
C1_Witness ==
    /\ user.role = "EMPLOYEE"
    /\ dialog = "alert"
    /\ tasks = INITIAL_TASKS

\* The assignee match rule as the specification words it: case-insensitive,
\* the first name token is a substring of the assignee string, or vice versa
FuzzyMatch(name, assignee) ==
    LET token == ToLowerCase(FirstToken(name))
        a == ToLowerCase(assignee)
    IN  Includes(a, token) \/ Includes(token, a)

\* An EMPLOYEE looking at the board can set card i to another status, through
\* the selector or by dragging the card onto a column
C2_CanChangeStatus(i) ==
    \/ \E s \in TaskStatus \ {tasks[i].status} : ENABLED SelectStatus(i, s)
    \/ ENABLED (DragStart(i) /\ dataTransfer' = tasks[i].id)

\* C2: an EMPLOYEE can change the status of a task (selector or drag-and-drop)
\* if and only if the assignee fuzzily matches the user's name; no task whose
\* assignee does not match enters a drag session or has its status changed.
C2_EmployeeStatusIffFuzzyMatch ==
    /\ [](user.role = "EMPLOYEE" /\ OnBoard /\ writes < MaxWrites
            => \A i \in projectTasks :
                  FuzzyMatch(user.name, tasks[i].assignee) <=> C2_CanChangeStatus(i))
    /\ [](user.role = "EMPLOYEE"
            => \A i \in 1..Len(tasks) :
                  dataTransfer = tasks[i].id
                     => FuzzyMatch(user.name, tasks[i].assignee))
    /\ [][user.role = "EMPLOYEE" /\ user' = user /\ Len(tasks') = Len(tasks)
            => \A i \in 1..Len(tasks) :
                  ~FuzzyMatch(user.name, tasks[i].assignee)
                     => tasks'[i].status = tasks[i].status]_vars

\* The fields of a task that the task form edits
EditFields(t) ==
    [title |-> t.title, description |-> t.description, category |-> t.category,
     priority |-> t.priority, assignee |-> t.assignee,
     acceptanceCriteria |-> t.acceptanceCriteria,
     estimatedHours |-> t.estimatedHours, technicalPlan |-> t.technicalPlan]

\* C3: no step taken while an EMPLOYEE is logged in changes the title,
\* description, category, priority, assignee, acceptanceCriteria,
\* estimatedHours or technicalPlan of any task, and the task modal never
\* offers an EMPLOYEE a submit that reaches the save handler.
C3_EmployeeEditsNoField ==
    /\ [][user.role = "EMPLOYEE"
            => /\ Len(tasks') = Len(tasks)
               /\ \A i \in 1..Len(tasks) :
                     EditFields(tasks'[i]) = EditFields(tasks[i])]_vars
    /\ [](user.role = "EMPLOYEE"
            => ~ENABLED (\E taskData \in FormValues : SubmitTask(taskData)))

\* An EMPLOYEE has the modal open on a stored task while writes are left
C3_Witness ==
    /\ user.role = "EMPLOYEE"
    /\ isModalOpen
    /\ taskToEdit # NoTask
    /\ writes < MaxWrites

\* C4: no step taken while an EMPLOYEE is logged in adds a project or a task,
\* and neither the project form nor the new-task form opens for an EMPLOYEE.
C4_EmployeeCreatesNothing ==
    /\ [][user.role = "EMPLOYEE"
            => /\ projects' = projects
               /\ TaskIds(tasks') \subseteq TaskIds(tasks)
               /\ Len(tasks') <= Len(tasks)]_vars
    /\ [](user.role = "EMPLOYEE"
            => /\ ~ENABLED OpenProjectModal
               /\ ~ENABLED ClickNewTask
               /\ ~isProjectModalOpen)

\* An EMPLOYEE is on the board after moving the assigned task, writes are left
C4_Witness ==
    /\ user.role = "EMPLOYEE"
    /\ OnBoard
    /\ writes < MaxWrites
    /\ \E i \in 1..Len(tasks) : tasks[i].id = "t4" /\ tasks[i].status = "IN_PROGRESS"

\* C5: a save with no task under edit appends exactly one task: the stored
\* tasks keep their places and values, the new task carries the draft's fields
\* and status (TODO when the form supplied the draft, as it has no status
\* input), the project active at the call, and a createdAt not before the call.
C5_CreateTask ==
    [][\A taskData \in CtlTaskData :
          (taskToEdit = NoTask /\ CtlSaveTask(taskData))
             => /\ Len(tasks') = Len(tasks) + 1
                /\ \A i \in 1..Len(tasks) : tasks'[i] = tasks[i]
                /\ LET t == tasks'[Len(tasks')]
                   IN  /\ EditFields(t) = EditFields(taskData)
                       /\ t.status = taskData.status
                       /\ taskData \in FormValues => t.status = "TODO"
                       /\ t.projectId = activeProjectId
                       /\ t.createdAt >= now]_vars

\* A third task was created in REVIEW under the first project
C5_Witness ==
    /\ Len(tasks) = 3
    /\ tasks[3].status = "REVIEW"
    /\ tasks[3].title = "Docs"
    /\ tasks[3].projectId = "p1"
    /\ tasks[3].id \in RandomIds

\* C6: a save with a task under edit keeps the id, projectId and createdAt of
\* every task, leaves every task with another id as it was, and leaves the
\* whole collection as it was when no task has the id under edit.
C6_UpdateTaskFrame ==
    [][\A taskData \in CtlTaskData :
          (taskToEdit # NoTask /\ CtlSaveTask(taskData))
             => /\ Len(tasks') = Len(tasks)
                /\ \A i \in 1..Len(tasks) :
                      /\ tasks'[i].id = tasks[i].id
                      /\ tasks'[i].projectId = tasks[i].projectId
                      /\ tasks'[i].createdAt = tasks[i].createdAt
                      /\ tasks[i].id # taskToEdit[1].id => tasks'[i] = tasks[i]
                /\ taskToEdit[1].id \notin TaskIds(tasks) => tasks' = tasks]_vars

\* Task t4 was edited through the form; t1 and the identity of t4 are intact
C6_Witness ==
    /\ Len(tasks) = 2
    /\ tasks[1] = INITIAL_TASKS[1]
    /\ tasks[2].id = "t4"
    /\ tasks[2].title = "Docs"
    /\ tasks[2].assignee = Str_Mi
    /\ tasks[2].createdAt = INITIAL_TASKS[2].createdAt
    /\ taskToEdit = NoTask

\* C7: a status change to s of id succeeds from every current status, gives
\* every task with that id the status s and nothing else new, leaves the tasks
\* with another id as they were, and leaves the collection as it was when no
\* task has the id.
C7_SetStatusOverwrites ==
    /\ [][\A taskId \in CtlIds, s \in TaskStatus :
             CtlStatusChange(taskId, s)
                => /\ Len(tasks') = Len(tasks)
                   /\ \A i \in 1..Len(tasks) :
                         IF tasks[i].id = taskId
                         THEN /\ tasks'[i].status = s
                              /\ [tasks'[i] EXCEPT !.status = tasks[i].status] = tasks[i]
                         ELSE tasks'[i] = tasks[i]
                   /\ taskId \notin TaskIds(tasks) => tasks' = tasks]_vars
    /\ [](writes < MaxWrites
            => \A i \in 1..Len(tasks), s \in TaskStatus :
                  ENABLED (CtlStatusChange(tasks[i].id, s) /\ tasks'[i].status = s))

\* Task t1, stored as DONE, was moved back to TODO by a status change alone
C7_Witness ==
    /\ Len(tasks) = 2
    /\ tasks[1] = [INITIAL_TASKS[1] EXCEPT !.status = "TODO"]
    /\ tasks[2] = INITIAL_TASKS[2]
    /\ ~isModalOpen
    /\ writes = 1

\* C8: no two tasks of the collection have the same id.
C8_UniqueTaskIds ==
    \A i, j \in 1..Len(tasks) : tasks[i].id = tasks[j].id => i = j

ProjectIds == {projects[k].id : k \in 1..Len(projects)}

\* C9: the projectId of every task and the activeProjectId are ids of
\* projects in the project collection.
C9_ProjectReferences ==
    /\ activeProjectId \in ProjectIds
    /\ \A i \in 1..Len(tasks) : tasks[i].projectId \in ProjectIds

\* A task was created under a project created in this run, and the team view
\* led back to the first project
C9_Witness ==
    /\ \E i \in 1..Len(tasks) : tasks[i].projectId \in RandomIds
    /\ Len(projects) = 3
    /\ activeProjectId = "p1"
    /\ user.role = "EMPLOYEE"
    /\ activeTab = "board"

\* The tasks of ts whose id is not taskId, in their order
RECURSIVE Remaining(_, _)
Remaining(ts, taskId) ==
    IF ts = << >> THEN << >>
    ELSE (IF Head(ts).id = taskId THEN << >> ELSE <<Head(ts)>>)
            \o Remaining(Tail(ts), taskId)

\* C10: a delete by an ADMIN or a MANAGER asks for confirmation; accepted, the
\* collection loses the tasks with that id and keeps the others in place;
\* declined, the collection is as it was.
C10_DeleteAfterConfirm ==
    [][\A taskId \in CtlIds :
          (user.role \in {"ADMIN", "MANAGER"} /\ CtlDeleteTask(taskId))
             => \/ /\ dialog' = "confirm accepted"
                   /\ tasks' = Remaining(tasks, taskId)
                \/ /\ dialog' = "confirm declined"
                   /\ tasks' = tasks]_vars

\* A MANAGER accepted the confirmation and t1 is gone, t4 intact
C10_Witness ==
    /\ user.role = "MANAGER"
    /\ dialog = "confirm accepted"
    /\ tasks = <<INITIAL_TASKS[2]>>

\* C11: a createProject(name, description) appends exactly one project, with
\* the given name and description and an id that no listed project has, keeps
\* the listed projects and all tasks as they were, and makes the new project
\* the active one.
C11_CreateProject ==
    [][\A name \in ProjectNames, description \in ProjectNames :
          CtlCreateProject(name, description)
             => /\ Len(projects') = Len(projects) + 1
                /\ \A k \in 1..Len(projects) : projects'[k] = projects[k]
                /\ LET project == projects'[Len(projects')]
                   IN  /\ project.name = name
                       /\ project.description = description
                       /\ project.id \notin ProjectIds
                       /\ activeProjectId' = project.id
                /\ tasks' = tasks]_vars

\* The shared store holds a record of an active meeting
StoreActive ==
    /\ localStorage # NoItem
    /\ localStorage[1].wellFormed
    /\ Parse(localStorage[1]).isActive

\* The step of tab c started a meeting: the tab holds and the store has a
\* record that the tab did not hold before, listing the user of the tab alone
Started(c) ==
    /\ ctx'[c].liveMeeting # NoMeeting
    /\ ctx'[c].liveMeeting # ctx[c].liveMeeting
    /\ ctx'[c].liveMeeting[1].participants = <<ctx[c].user.name>>
    /\ localStorage' = <<Stringify(ctx'[c].liveMeeting[1])>>

\* C12: a meeting is started only by an ADMIN or a MANAGER and only while the
\* shared store holds no active meeting; a step of an EMPLOYEE starts none.
C12_StartOnlyByHostWhenIdle ==
    [][\A c \in Contexts :
          (ClickStartOrJoin(c) /\ Started(c))
             => /\ ctx[c].user.role \in {"ADMIN", "MANAGER"}
                /\ ~StoreActive]_vars

\* C13: no two tabs hold active local liveMeeting records with different ids.
C13_SingleActiveMeeting ==
    \A c, d \in Contexts :
        isMeetingActive(ctx[c]) /\ isMeetingActive(ctx[d])
           => ctx[c].liveMeeting[1].id = ctx[d].liveMeeting[1].id

\* The string is empty or holds spaces only
Blank(s) == \A i \in 1..Len(s) : s[i] = " "

\* A click of tab c that is a start attempt: by a host that sees no meeting
StartAttempt(c) ==
    /\ ctx[c].user.role \in {"ADMIN", "MANAGER"}
    /\ ctx[c].liveMeeting = NoMeeting

\* C14: a start with a blank topic, and a start or join while no stream is
\* held, writes nothing to the shared store, leaves the local liveMeeting as
\* it was, stays in the lobby and sets an inline error.
C14_RejectedAttemptHasNoEffect ==
    [][\A c \in Contexts :
          (/\ ClickStartOrJoin(c)
           /\ \/ ~ctx[c].stream
              \/ StartAttempt(c) /\ Blank(ctx[c].meetingTopic))
             => /\ localStorage' = localStorage
                /\ ctx'[c].liveMeeting = ctx[c].liveMeeting
                /\ ctx'[c].view = "Lobby"
                /\ ctx'[c].error # NoError]_vars

\* A host holding a stream was refused a start with a topic of spaces
C14_Witness ==
    \E c \in Contexts :
        /\ ctx[c].stream
        /\ ctx[c].meetingTopic = <<" ">>
        /\ ctx[c].error = ErrTopic
        /\ ctx[c].view = "Lobby"
        /\ localStorage = NoItem

\* C15: a start that passes validation stores a record with a generated id,
\* the typed topic, the id and name of the starting user as host, isActive
\* true and the host's name as only participant; the starter's liveMeeting is
\* that record.
C15_StartedRecord ==
    [][\A c \in Contexts :
          (/\ ClickStartOrJoin(c)
           /\ ctx[c].stream
           /\ StartAttempt(c)
           /\ ~Blank(ctx[c].meetingTopic))
             => /\ ctx'[c].liveMeeting # NoMeeting
                /\ localStorage' # NoItem
                /\ localStorage'[1].wellFormed
                /\ Parse(localStorage'[1]) = ctx'[c].liveMeeting[1]
                /\ LET meeting == ctx'[c].liveMeeting[1]
                   IN  /\ meeting.id \in RandomIds
                       /\ meeting.topic = ctx[c].meetingTopic
                       /\ meeting.hostId = ctx[c].user.id
                       /\ meeting.hostName = ctx[c].user.name
                       /\ meeting.isActive
                       /\ meeting.participants = <<ctx[c].user.name>>]_vars

\* The ADMIN of tab1 started the meeting "Q3" and is in the live view
C15_Witness ==
    /\ ctx["tab1"].view = "Live"
    /\ ctx["tab1"].liveMeeting # NoMeeting
    /\ ctx["tab1"].liveMeeting[1].hostId = "u1"
    /\ ctx["tab1"].liveMeeting[1].topic = <<"Q", "3">>
    /\ localStorage = <<Stringify(ctx["tab1"].liveMeeting[1])>>

\* The number of places of seq that hold x
Count(seq, x) == Cardinality({i \in 1..Len(seq) : seq[i] = x})

\* No name is listed twice
NoDuplicate(seq) == \A i, j \in 1..Len(seq) : seq[i] = seq[j] => i = j

\* C16: a join of an active meeting leaves the joining user listed exactly
\* once and stores the list when it grew; a join by a user already listed
\* changes neither the local record nor the store; no list of participants,
\* stored or local, holds a name twice.
C16_JoinIdempotent ==
    /\ [][\A c \in Contexts :
             (ClickStartOrJoin(c) /\ ctx[c].stream /\ isMeetingActive(ctx[c]))
                => LET before == ctx[c].liveMeeting[1].participants
                       name == ctx[c].user.name
                   IN  /\ ctx'[c].liveMeeting # NoMeeting
                       /\ Count(ctx'[c].liveMeeting[1].participants, name) = 1
                       /\ Count(before, name) = 0
                             => localStorage' = <<Stringify(ctx'[c].liveMeeting[1])>>
                       /\ Count(before, name) > 0
                             => /\ ctx'[c].liveMeeting = ctx[c].liveMeeting
                                /\ localStorage' = localStorage]_vars
    /\ [](localStorage # NoItem /\ localStorage[1].wellFormed
             => NoDuplicate(Parse(localStorage[1]).participants))
    /\ [](\A c \in Contexts :
             ctx[c].liveMeeting # NoMeeting
                => NoDuplicate(ctx[c].liveMeeting[1].participants))

\* The user of tab2 joined the meeting of tab1 and is back in the lobby,
\* listed, with a stream: the next click is a second join
C16_Witness ==
    /\ localStorage # NoItem
    /\ localStorage[1].wellFormed
    /\ Parse(localStorage[1]).participants
          = <<ctx["tab1"].user.name, ctx["tab2"].user.name>>
    /\ ctx["tab2"].liveMeeting = <<Parse(localStorage[1])>>
    /\ ctx["tab2"].view = "Lobby"
    /\ ctx["tab2"].stream

\* The store holds a record that parses
StoreParses == localStorage # NoItem /\ localStorage[1].wellFormed

\* The record is as a start wrote it: nobody has joined
AsStarted(meeting) == meeting.participants = <<meeting.hostName>>

\* C17: after a stop, the next poll of every other tab observes no meeting,
\* whatever the tabs did in between; a meeting that a host started since the
\* stop and nobody joined is set aside.
C17_StopSeenByNextPoll ==
    [][\A c \in Contexts :
          (Poll(c) /\ ctx[c].stopUnseen /\ (localStorage = NoItem \/ StoreParses))
             => \/ ctx'[c].liveMeeting = NoMeeting
                \/ AsStarted(ctx'[c].liveMeeting[1])]_vars

\* C18: the record leaves the store only by an accepted "End Meeting" of the
\* user who is the host of that record; a declined confirm removes nothing; an
\* accepted stop removes the record and sets the stopper's liveMeeting to null.
C18_RemovedOnlyByItsHost ==
    [][/\ (StoreParses /\ localStorage' = NoItem)
             => \E c \in Contexts :
                   /\ ClickEndMeeting(c)
                   /\ ctx'[c].fault = "confirm accepted"
                   /\ ctx[c].user.id = Parse(localStorage[1]).hostId
       /\ \A c \in Contexts :
             (ClickEndMeeting(c) /\ ctx'[c].fault = "confirm declined")
                => localStorage' = localStorage
       /\ \A c \in Contexts :
             (ClickEndMeeting(c) /\ ctx'[c].fault = "confirm accepted")
                => localStorage' = NoItem /\ ctx'[c].liveMeeting = NoMeeting]_vars

\* C19: a poll of a tab in the live view that finds no record leaves the tab
\* in the lobby with isLive false, no open AudioContext, no frame interval and
\* no live media track.
C19_RemoteTerminationTearsDown ==
    [][(/\ Poll("tab1")
        /\ ctx["tab1"].activeTab = "meet"
        /\ ctx["tab1"].view = "Live"
        /\ localStorage = NoItem)
          => /\ ctx'["tab1"].view = "Lobby"
             /\ ~ctx'["tab1"].isLive
             /\ ~ctx'["tab1"].audioContexts
             /\ ~ctx'["tab1"].frameInterval
             /\ ~ctx'["tab1"].tracks
             /\ ~ctx'["tab1"].stream]_vars

\* C20: a poll that reads a value that does not parse sets liveMeeting to
\* null and throws nothing.
C20_MalformedValueIsNoMeeting ==
    [][\A c \in Contexts :
          (Poll(c) /\ localStorage # NoItem /\ ~localStorage[1].wellFormed)
             => /\ ctx'[c].liveMeeting = NoMeeting
                /\ ctx'[c].fault # "SyntaxError"]_vars

\* C21: no tab that has left the meeting page, or has finished its call and
\* shows the summary, still holds a live media track, an open AudioContext or
\* a running frame interval.
C21_NoMediaHeldAfterExit ==
    \A c \in Contexts :
        (ctx[c].activeTab # "meet" \/ ctx[c].view = "Summary")
           => /\ ~ctx[c].tracks
              /\ ~ctx[c].audioContexts
              /\ ~ctx[c].frameInterval

\* The sessions of tab c recorded or about to be: summarizeMeeting returns
Recorded(t) == Len(t.meetingHistory) + t.summarizing

\* C22: every end of a live call of a tab, by "Leave Call" or by a remote
\* termination, adds one session to the tab's meeting history (once the
\* summary has returned), and every step keeps the sessions the history held.
C22_HistoryGainsEveryEndedCall ==
    [][\A c \in Contexts :
          /\ (LeaveCall(c) \/ (Poll(c) /\ ctx[c].view = "Live"
                                       /\ ctx'[c].view = "Lobby"))
                => Recorded(ctx'[c]) = Recorded(ctx[c]) + 1
          /\ \/ ctx'[c].meetingHistory = ctx[c].meetingHistory
             \/ /\ ctx'[c].meetingHistory # << >>
                /\ Tail(ctx'[c].meetingHistory) = ctx[c].meetingHistory]_vars

\* C23: the return of the AI call of a chat send, whether it yields text, no
\* text or an error, clears the loading flag, throws nothing and appends
\* exactly one message of the model.
C23_SendEndsWithOneModelMessage ==
    [][\A c \in Contexts : \A outcome \in {"text", "empty", "throws"} :
          ChatReturned(c, outcome)
             => /\ ~ctx'[c].isChatLoading
                /\ ctx'[c].fault = "none"
                /\ Len(ctx'[c].chatMessages) = Len(ctx[c].chatMessages) + 1
                /\ ctx'[c].chatMessages[Len(ctx'[c].chatMessages)].role = "model"
                /\ SubSeq(ctx'[c].chatMessages, 1, Len(ctx[c].chatMessages))
                      = ctx[c].chatMessages]_vars

\* C24: for the logged-in user and every stored task, the board's isAssignee
\* and the team view's myTasks filter both decide "mine" exactly as the
\* case-insensitive rule does: the first name token is a substring of the
\* assignee, or the assignee is a substring of the token.
C24_OneFuzzyRelation ==
    LoggedIn
       => \A i \in 1..Len(tasks) :
             /\ isAssignee(tasks[i]) <=> FuzzyMatch(user.name, tasks[i].assignee)
             /\ i \in myTasks <=> FuzzyMatch(user.name, tasks[i].assignee)

\* The names the stored record lists
StoredParticipants ==
    LET names == Parse(localStorage[1]).participants
    IN  {names[i] : i \in 1..Len(names)}

\* C25: while a record is stored, it lists the name of a tab's user exactly
\* when the tab is in the live view.
C25_ParticipantsAreInLiveView ==
    StoreParses
       => \A c \in Contexts :
             ctx[c].user.name \in StoredParticipants
                <=> (ctx[c].activeTab = "meet" /\ ctx[c].view = "Live")

\* The authenticated user of tab c and the session its store holds
Session(t) == <<t.user, t.sessionStorage>>

\* C26: a login or logout of one tab leaves the user and the stored session
\* of every other tab as they were; a login with a known e-mail makes the
\* tab's user the record its store holds; a logout clears both; a login with
\* an unknown e-mail is rejected and changes neither; in every state a tab's
\* user is the one its store holds, or both are empty.
C26_SessionsArePerTab ==
    /\ [][\A c \in Contexts :
             /\ ((\E email \in Emails : login(c, email)) \/ loginTimeout(c) \/ logout(c))
                   => \A d \in Contexts \ {c} : Session(ctx'[d]) = Session(ctx[d])
             /\ loginTimeout(c)
                   => LET found == mockUser(Head(ctx[c].loginTimers))
                      IN  IF found # NoUser
                          THEN /\ ctx'[c].user = found
                               /\ ctx'[c].sessionStorage # NoItem
                               /\ ctx'[c].sessionStorage[1].wellFormed
                               /\ Parse(ctx'[c].sessionStorage[1]) = found
                          ELSE /\ Session(ctx'[c]) = Session(ctx[c])
                               /\ ctx'[c].fault = "Invalid credentials"
             /\ logout(c)
                   => ctx'[c].user = NoUser /\ ctx'[c].sessionStorage = NoItem]_vars
    /\ [](\A c \in Contexts :
             IF ctx[c].user = NoUser
             THEN ctx[c].sessionStorage = NoItem
             ELSE ctx[c].sessionStorage = <<Stringify(ctx[c].user)>>)

\* tab2 holds the session of the EMPLOYEE while tab1, logged out, has just
\* been refused an unknown e-mail
C26_Witness ==
    /\ ctx["tab1"].user = NoUser
    /\ ctx["tab1"].fault = "Invalid credentials"
    /\ ctx["tab1"].sessionStorage = NoItem
    /\ ctx["tab2"].user.role = "EMPLOYEE"
    /\ ctx["tab2"].sessionStorage = <<Stringify(ctx["tab2"].user)>>

\* C27: while no record is stored, the only step that stores one is a start
\* by a host who sees no meeting; a join from a tab that still caches a
\* meeting stores nothing.
C27_AbsentUntilNewStart ==
    [][(localStorage = NoItem /\ localStorage' # NoItem /\ localStorage'[1].wellFormed)
          => \E c \in Contexts :
                /\ ClickStartOrJoin(c)
                /\ StartAttempt(c)
                /\ ctx'[c].liveMeeting # NoMeeting
                /\ AsStarted(ctx'[c].liveMeeting[1])]_vars

\* Two records of one meeting: they differ in the participants at most
SameMeeting(m, n) == [m EXCEPT !.participants = << >>] = [n EXCEPT !.participants = << >>]

\* C28: a join of the stored meeting keeps every name the stored record
\* lists, so that the names of two users who joined are both listed.
C28_JoinKeepsListedNames ==
    [][\A c \in Contexts :
          (/\ ClickStartOrJoin(c)
           /\ ctx[c].stream
           /\ isMeetingActive(ctx[c])
           /\ StoreParses
           /\ SameMeeting(Parse(localStorage[1]), ctx[c].liveMeeting[1]))
             => /\ StoreParses'
                /\ StoredParticipants \subseteq StoredParticipants']_vars

\* C29: a poll of a tab in the live view that follows a stop by another tab
\* either takes the tab out of the live view or leaves it with a liveMeeting
\* that lists the tab's user.
C29_LiveViewHoldsOwnMeeting ==
    [][\A c \in Contexts :
          (/\ Poll(c)
           /\ ctx[c].stopUnseen
           /\ ctx[c].view = "Live"
           /\ (localStorage = NoItem \/ StoreParses))
             => \/ ctx'[c].view # "Live"
                \/ /\ ctx'[c].liveMeeting # NoMeeting
                   /\ Count(ctx'[c].liveMeeting[1].participants, ctx[c].user.name) = 1]_vars

\* The sum of the totalTasks of the developers at the names S
RECURSIVE SumTotalTasks(_)
SumTotalTasks(S) ==
    IF S = {} THEN 0
    ELSE LET name == CHOOSE name \in S : TRUE
         IN  developers[name].totalTasks + SumTotalTasks(S \ {name})

\* C30: in every state each task of the active project is in exactly one of
\* the four columns, the four status counts of the dashboard sum to the
\* number of tasks, and the team view has statistics in which, for every
\* developer, completed + active = total and the completed hours do not
\* exceed the assigned hours, the totals summing to the number of tasks.
C30_DerivedViewsPartition ==
    /\ \A i \in projectTasks :
          Cardinality({s \in TaskStatus : i \in StatusColumnTasks(s)}) = 1
    /\ statusData("TODO") + statusData("IN_PROGRESS") + statusData("REVIEW")
          + statusData("DONE") = Len(tasks)
    /\ ~TeamBoardThrows
    /\ \A name \in DOMAIN developers :
          /\ developers[name].completedTasks + developers[name].activeTasks
                = developers[name].totalTasks
          /\ developers[name].totalHoursCompleted <= developers[name].totalHoursAssigned
    /\ SumTotalTasks(DOMAIN developers) = Len(tasks)
====
